---------------------------- MODULE Spec2Model ----------------------------
(***************************************************************************)
(* Model of update_news.py: the result fetcher (search_news,               *)
(* extract_real_url), the date snapshot (get_current_date), the page       *)
(* renderer (generate_html) and the orchestration (main).                  *)
(*                                                                         *)
(* A string is a sequence of Unicode code points (integers); a byte string *)
(* is a sequence of integers 0..255.                                       *)
(***************************************************************************)
EXTENDS Integers, Sequences, FiniteSets, TLC

VARIABLES
    pc,               \* position of the running operation
    duckduckgo_url,   \* extract_real_url: its argument
    real_url,         \* extract_real_url: its return value
    query,            \* search_news: the query argument
    num_results,      \* search_news: the num_results argument
    response,         \* search_news: what the HTTP request of the call does
    ret,              \* search_news: how the call ended
    date_info,        \* the DateInfo of get_current_date
    news_data,        \* the NewsCollection: category -> list of results
    html_content,     \* the document generate_html returned
    clock,            \* the wall clock: index of the current instant
    current_year,     \* main: the year put into the queries
    current_month,    \* main: the month put into the queries
    qi,               \* main: number of queries fetched so far
    calls,            \* the calls of search_news made by the run, in order
    hits,             \* number of fetches of the run that found anchors
    file              \* content of the output file index.html

urlVars == <<duckduckgo_url, real_url>>
fetchVars == <<query, num_results, response, ret>>
renderVars == <<date_info, news_data, html_content>>
mainVars == <<clock, current_year, current_month, qi, calls, hits, file>>
vars == <<pc, urlVars, fetchVars, renderVars, mainVars>>

None == <<-1>>        \* Python's None (no string holds a negative code point)

(***************************************************************************)
(* Bounds of the model.                                                    *)
(***************************************************************************)
MaxPieces == 4        \* an href is built from at most this many pieces
MaxAnchors == 4       \* a response body holds at most this many anchors
MaxK == 4             \* the largest num_results passed to search_news
MaxItems == 7         \* a category given to generate_html holds at most this many items
MaxHits == 2          \* at most this many fetches of a run find anchors

(***************************************************************************)
(* Sequence helpers.                                                       *)
(***************************************************************************)
RECURSIVE Flatten(_)
Flatten(ss) == IF ss = <<>> THEN <<>> ELSE Head(ss) \o Flatten(Tail(ss))

SeqsUpTo(S, n) == UNION {[1..k -> S] : k \in 0..n}

Take(s, n) == SubSeq(s, 1, IF n < Len(s) THEN n ELSE Len(s))

Drop(s, n) == SubSeq(s, n + 1, Len(s))

Min(a, b) == IF a < b THEN a ELSE b

\* s[p..] starts with t
StartsAt(s, p, t) ==
    /\ p >= 1
    /\ p + Len(t) - 1 =< Len(s)
    /\ SubSeq(s, p, p + Len(t) - 1) = t

\* Python's `t in s` for strings
Contains(s, t) == \E p \in 1..(Len(s) + 1) : StartsAt(s, p, t)

(***************************************************************************)
(* Characters used by the code.                                            *)
(***************************************************************************)
AMP == 38             \* '&'
PCT == 37             \* '%'
PLUS == 43            \* '+'
SPACE == 32           \* ' '
REPLACEMENT == 65533  \* U+FFFD, produced by errors='replace'
UDDG == <<117, 100, 100, 103, 61>>   \* 'uddg='

(***************************************************************************)
(* urllib.parse.unquote(string): percent-decoding, then UTF-8 decoding of  *)
(* the decoded bytes with errors='replace'.                                *)
(***************************************************************************)
IsHexDigit(c) == (c \in 48..57) \/ (c \in 65..70) \/ (c \in 97..102)

HexVal(c) == IF c \in 48..57 THEN c - 48
             ELSE IF c \in 65..70 THEN c - 55
             ELSE c - 87

IsCont(bs, i) == i =< Len(bs) /\ bs[i] \in 128..191

\* the lowest and highest valid second byte after lead byte b
SecondLo(b) == IF b = 224 THEN 160 ELSE IF b = 240 THEN 144 ELSE 128
SecondHi(b) == IF b = 237 THEN 159 ELSE IF b = 244 THEN 143 ELSE 191

IsSecond(bs, i, b) == i =< Len(bs) /\ bs[i] >= SecondLo(b) /\ bs[i] =< SecondHi(b)

\* bytes.decode('utf-8', 'replace'): every maximal invalid subpart becomes U+FFFD
RECURSIVE Utf8Decode(_)
Utf8Decode(bs) ==
    IF bs = <<>> THEN <<>>
    ELSE LET b == bs[1] IN
         IF b < 128 THEN <<b>> \o Utf8Decode(Drop(bs, 1))
         ELSE IF b \in 194..223 THEN
              IF IsCont(bs, 2)
              THEN <<(b - 192) * 64 + (bs[2] - 128)>> \o Utf8Decode(Drop(bs, 2))
              ELSE <<REPLACEMENT>> \o Utf8Decode(Drop(bs, 1))
         ELSE IF b \in 224..239 THEN
              IF ~IsSecond(bs, 2, b) THEN <<REPLACEMENT>> \o Utf8Decode(Drop(bs, 1))
              ELSE IF ~IsCont(bs, 3) THEN <<REPLACEMENT>> \o Utf8Decode(Drop(bs, 2))
              ELSE <<(b - 224) * 4096 + (bs[2] - 128) * 64 + (bs[3] - 128)>>
                   \o Utf8Decode(Drop(bs, 3))
         ELSE IF b \in 240..244 THEN
              IF ~IsSecond(bs, 2, b) THEN <<REPLACEMENT>> \o Utf8Decode(Drop(bs, 1))
              ELSE IF ~IsCont(bs, 3) THEN <<REPLACEMENT>> \o Utf8Decode(Drop(bs, 2))
              ELSE IF ~IsCont(bs, 4) THEN <<REPLACEMENT>> \o Utf8Decode(Drop(bs, 3))
              ELSE <<(b - 240) * 262144 + (bs[2] - 128) * 4096
                     + (bs[3] - 128) * 64 + (bs[4] - 128)>>
                   \o Utf8Decode(Drop(bs, 4))
         ELSE <<REPLACEMENT>> \o Utf8Decode(Drop(bs, 1))

\* unquote_to_bytes on an ASCII run: '%XX' with two hex digits is one byte,
\* any other character (a stray '%' included) stands for itself
RECURSIVE UnquoteToBytes(_)
UnquoteToBytes(s) ==
    IF s = <<>> THEN <<>>
    ELSE IF s[1] = PCT /\ Len(s) >= 3 /\ IsHexDigit(s[2]) /\ IsHexDigit(s[3])
         THEN <<16 * HexVal(s[2]) + HexVal(s[3])>> \o UnquoteToBytes(Drop(s, 3))
         ELSE <<s[1]>> \o UnquoteToBytes(Drop(s, 1))

\* length of the longest prefix of s whose characters are all ASCII (or all not)
RECURSIVE RunLen(_, _)
RunLen(s, ascii) ==
    IF s = <<>> \/ ((s[1] < 128) # ascii) THEN 0
    ELSE 1 + RunLen(Drop(s, 1), ascii)

\* unquote: the ASCII runs are decoded, the non-ASCII runs are kept
RECURSIVE unquote(_)
unquote(string) ==
    IF string = <<>> THEN <<>>
    ELSE IF string[1] < 128
         THEN LET n == RunLen(string, TRUE) IN
              Utf8Decode(UnquoteToBytes(Take(string, n))) \o unquote(Drop(string, n))
         ELSE LET n == RunLen(string, FALSE) IN
              Take(string, n) \o unquote(Drop(string, n))

(***************************************************************************)
(* re.search(r'uddg=([^&]+)', url).group(1), or None without a match: the  *)
(* leftmost 'uddg=' that is followed by a character other than '&', and    *)
(* the longest run of such characters after it.                            *)
(***************************************************************************)
RECURSIVE NonAmpRun(_)
NonAmpRun(s) ==
    IF s = <<>> \/ s[1] = AMP THEN <<>>
    ELSE <<s[1]>> \o NonAmpRun(Drop(s, 1))

MatchAt(url, p) ==
    /\ StartsAt(url, p, UDDG)
    /\ NonAmpRun(Drop(url, p + Len(UDDG) - 1)) # <<>>

\* the pattern with '*' for '+': an empty parameter value matches too
re_search_uddg_star(url) ==
    IF \E p \in 1..Len(url) : StartsAt(url, p, UDDG)
    THEN LET p == CHOOSE q \in 1..Len(url) :
                      /\ StartsAt(url, q, UDDG)
                      /\ \A r \in 1..(q - 1) : ~StartsAt(url, r, UDDG)
         IN NonAmpRun(Drop(url, p + Len(UDDG) - 1))
    ELSE None

re_search_uddg(url) ==
    IF \E p \in 1..Len(url) : MatchAt(url, p)
    THEN LET p == CHOOSE q \in 1..Len(url) :
                      /\ MatchAt(url, q)
                      /\ \A r \in 1..(q - 1) : ~MatchAt(url, r)
         IN NonAmpRun(Drop(url, p + Len(UDDG) - 1))
    ELSE None

(***************************************************************************)
(* extract_real_url                                                        *)
(***************************************************************************)
extract_real_url(url) ==
    IF Contains(url, UDDG)
    THEN LET match == re_search_uddg(url) IN
         IF match # None THEN unquote(match) ELSE url
    ELSE url

(***************************************************************************)
(* Specification of extract_real_url as a pure function: the href is any   *)
(* concatenation of at most MaxPieces pieces.                              *)
(***************************************************************************)
HrefPieces ==
    { UDDG,
      <<AMP>>,
      <<PCT>>,
      <<50>>,                      \* '2'
      <<120>>,                     \* 'x'
      <<PCT, 50, 70>>,             \* '%2F'
      <<PCT, 67, 51>>,             \* '%C3'
      <<PCT, 65, 57>>,             \* '%A9'
      <<233>> }                    \* U+00E9, not ASCII

Hrefs == {Flatten(ps) : ps \in SeqsUpTo(HrefPieces, MaxPieces)}

NoCall == [raised |-> FALSE, results |-> <<>>]

FetchIdle ==
    /\ query = <<>>
    /\ num_results = 0
    /\ response = [kind |-> "none"]
    /\ ret = NoCall

RenderIdle ==
    /\ date_info = None
    /\ news_data = <<>>
    /\ html_content = None

MainIdle ==
    /\ clock = 1
    /\ current_year = 0
    /\ current_month = 0
    /\ qi = 0
    /\ calls = <<>>
    /\ hits = 0
    /\ file = <<>>

InitUrl ==
    /\ pc = "url_call"
    /\ duckduckgo_url \in Hrefs
    /\ real_url = None
    /\ FetchIdle
    /\ RenderIdle
    /\ MainIdle

ExtractRealUrl ==
    /\ pc = "url_call"
    /\ real_url' = extract_real_url(duckduckgo_url)
    /\ pc' = "url_done"
    /\ UNCHANGED <<duckduckgo_url, fetchVars, renderVars, mainVars>>

NextUrl == ExtractRealUrl

SpecUrl == InitUrl /\ [][NextUrl]_vars

(***************************************************************************)
(* urllib.parse.quote_plus(query): UTF-8 encoding (strict), then every     *)
(* byte outside the always-safe set as %XX, a space as '+'.                *)
(***************************************************************************)
IsSurrogate(c) == c \in 55296..57343

\* str.encode('utf-8') raises UnicodeEncodeError on a lone surrogate
EncodeRaises(s) == \E i \in 1..Len(s) : IsSurrogate(s[i])

Utf8EncodeChar(c) ==
    IF c < 128 THEN <<c>>
    ELSE IF c < 2048 THEN <<192 + (c \div 64), 128 + (c % 64)>>
    ELSE IF c < 65536
         THEN <<224 + (c \div 4096), 128 + ((c \div 64) % 64), 128 + (c % 64)>>
    ELSE <<240 + (c \div 262144), 128 + ((c \div 4096) % 64),
           128 + ((c \div 64) % 64), 128 + (c % 64)>>

RECURSIVE Utf8Encode(_)
Utf8Encode(s) ==
    IF s = <<>> THEN <<>> ELSE Utf8EncodeChar(s[1]) \o Utf8Encode(Drop(s, 1))

\* letters, digits and '_.-~'
IsAlwaysSafe(b) ==
    \/ b \in 48..57
    \/ b \in 65..90
    \/ b \in 97..122
    \/ b \in {95, 46, 45, 126}

HexChar(n) == IF n < 10 THEN 48 + n ELSE 55 + n

QuoteByte(b) ==
    IF IsAlwaysSafe(b) THEN <<b>>
    ELSE IF b = SPACE THEN <<PLUS>>
    ELSE <<PCT, HexChar(b \div 16), HexChar(b % 16)>>

RECURSIVE QuoteBytes(_)
QuoteBytes(bs) ==
    IF bs = <<>> THEN <<>> ELSE QuoteByte(bs[1]) \o QuoteBytes(Drop(bs, 1))

\* defined when ~EncodeRaises(string)
quote_plus(string) == QuoteBytes(Utf8Encode(string))

(***************************************************************************)
(* str.strip(): leading and trailing whitespace removed.                   *)
(***************************************************************************)
IsSpace(c) ==
    \/ c \in 9..13
    \/ c \in 28..32
    \/ c \in {133, 160, 5760, 8232, 8233, 8239, 8287, 12288}
    \/ c \in 8192..8202

RECURSIVE LStrip(_)
LStrip(s) == IF s # <<>> /\ IsSpace(s[1]) THEN LStrip(Drop(s, 1)) ELSE s

RECURSIVE RStrip(_)
RStrip(s) ==
    IF s # <<>> /\ IsSpace(s[Len(s)]) THEN RStrip(Take(s, Len(s) - 1)) ELSE s

\* a strip that forgets the trailing whitespace
strip_leading_only(s) == LStrip(s)

strip(s) == RStrip(LStrip(s))

(***************************************************************************)
(* search_news.  The HTTP exchange is the environment: the request fails   *)
(* (network error, timeout), the body is not UTF-8 (decode failure), or    *)
(* the body decodes to html, given as the sequence of its anchor tags      *)
(* [class, href, text] in document order.                                  *)
(***************************************************************************)
RESULT_CLASS == "result__a"

\* re.findall(pattern, html): the <<href, text>> of the anchors whose class
\* attribute is "result__a", in document order
RECURSIVE re_findall(_)
re_findall(html) ==
    IF html = <<>> THEN <<>>
    ELSE (IF html[1].class = RESULT_CLASS
          THEN <<<<html[1].href, html[1].text>>>> ELSE <<>>)
         \o re_findall(Drop(html, 1))

\* Python's s[:n]
SliceTo(s, n) ==
    IF n >= 0 THEN Take(s, n)
    ELSE Take(s, IF Len(s) + n > 0 THEN Len(s) + n ELSE 0)

\* the for loop over matches[:num_results]
RECURSIVE CollectResults(_)
CollectResults(matches) ==
    IF matches = <<>> THEN <<>>
    ELSE LET raw_url == matches[1][1]
             title   == matches[1][2]
         IN (IF strip(title) # <<>>
             THEN <<[title |-> strip(title), url |-> extract_real_url(raw_url)]>>
             ELSE <<>>)
            \o CollectResults(Drop(matches, 1))

\* search_news catching the network error only: a timeout or a decode
\* failure raises
search_news_narrow_except(q, n, resp) ==
    IF EncodeRaises(q) \/ resp.kind \in {"timeout", "decode_error"}
    THEN [raised |-> TRUE, results |-> <<>>]
    ELSE IF resp.kind = "ok"
         THEN [raised |-> FALSE,
               results |-> CollectResults(SliceTo(re_findall(resp.html), n))]
         ELSE [raised |-> FALSE, results |-> <<>>]

\* search_news without its except clause: a failed request raises
search_news_no_except(q, n, resp) ==
    IF EncodeRaises(q) \/ resp.kind # "ok"
    THEN [raised |-> TRUE, results |-> <<>>]
    ELSE [raised |-> FALSE,
          results |-> CollectResults(SliceTo(re_findall(resp.html), n))]

\* [raised |-> the call raised to its caller, results |-> the list returned]
search_news(q, n, resp) ==
    IF EncodeRaises(q)
    THEN [raised |-> TRUE, results |-> <<>>]     \* quote_plus, before the try
    ELSE IF resp.kind = "ok"
         THEN [raised |-> FALSE,
               results |-> CollectResults(SliceTo(re_findall(resp.html), n))]
         ELSE [raised |-> FALSE, results |-> <<>>]   \* except Exception

(***************************************************************************)
(* Specification of search_news as a function of its arguments and of the  *)
(* outcome of the HTTP request.                                            *)
(***************************************************************************)
Anchor(c, h, t) == [class |-> c, href |-> h, text |-> t]

FetchAnchors ==
    { Anchor(RESULT_CLASS, UDDG \o <<120, PCT, 50, 70, AMP, 114>>, <<SPACE, 65, SPACE>>),
      Anchor(RESULT_CLASS, <<120>>, <<66>>),
      Anchor(RESULT_CLASS, <<121>>, <<SPACE, 9>>),
      Anchor("result__snippet", <<122>>, <<67>>) }

FailureKinds == {"network_error", "timeout", "decode_error"}

Responses(anchors, n) ==
    {[kind |-> k] : k \in FailureKinds}
        \cup {[kind |-> "ok", html |-> h] : h \in SeqsUpTo(anchors, n)}

FetchQueries ==
    { <<65, 73>>,                  \* 'AI'
      <<65, SPACE, 24180>>,        \* a space and a CJK character
      <<65, 55296>> }              \* a lone surrogate

InitFetch ==
    /\ pc = "fetch_call"
    /\ query \in FetchQueries
    /\ num_results \in (-1)..MaxK
    /\ response \in Responses(FetchAnchors, MaxAnchors)
    /\ ret = NoCall
    /\ duckduckgo_url = <<>>
    /\ real_url = None
    /\ RenderIdle
    /\ MainIdle

SearchNews ==
    /\ pc = "fetch_call"
    /\ ret' = search_news(query, num_results, response)
    /\ pc' = IF ret'.raised THEN "fetch_raised" ELSE "fetch_returned"
    /\ UNCHANGED <<query, num_results, response, urlVars, renderVars, mainVars>>

NextFetch == SearchNews

SpecFetch == InitFetch /\ [][NextFetch]_vars

(***************************************************************************)
(* get_current_date.  `now` is the reading of datetime.now():              *)
(* [year, month, day, hour, minute].                                       *)
(***************************************************************************)
RECURSIVE DecStr(_)
\* str(n) for n >= 0
DecStr(n) == IF n < 10 THEN <<48 + n>> ELSE DecStr(n \div 10) \o <<48 + (n % 10)>>

\* strftime's %H and %M: two digits
Pad2(n) == <<48 + (n \div 10), 48 + (n % 10)>>

IsLeap(y) == (y % 4 = 0 /\ y % 100 # 0) \/ (y % 400 = 0)

DaysIn(y, m) ==
    IF m = 2 THEN (IF IsLeap(y) THEN 29 ELSE 28)
    ELSE IF m \in {4, 6, 9, 11} THEN 30 ELSE 31

\* the date d days before date t (timedelta subtraction)
RECURSIVE MinusDays(_, _)
MinusDays(t, d) ==
    IF d = 0 THEN t
    ELSE IF t.day > 1 THEN MinusDays([t EXCEPT !.day = @ - 1], d - 1)
    ELSE IF t.month > 1
         THEN MinusDays([t EXCEPT !.month = @ - 1, !.day = DaysIn(t.year, t.month - 1)],
                        d - 1)
    ELSE MinusDays([t EXCEPT !.year = @ - 1, !.month = 12, !.day = 31], d - 1)

YEAR_CH == 24180      \* U+5E74
MONTH_CH == 26376     \* U+6708
DAY_CH == 26085       \* U+65E5
COLON == 58           \* ':'

get_current_date(now) ==
    LET week_start == MinusDays(now, 6) IN
    [ year             |-> now.year,
      month            |-> now.month,
      day              |-> now.day,
      week_start_month |-> week_start.month,
      week_start_day   |-> week_start.day,
      formatted        |-> DecStr(now.year) \o <<YEAR_CH>> \o DecStr(now.month)
                           \o <<MONTH_CH>> \o DecStr(now.day) \o <<DAY_CH>>,
      time             |-> Pad2(now.hour) \o <<COLON>> \o Pad2(now.minute) ]

(***************************************************************************)
(* generate_html.  The document is the sequence of the fragments the       *)
(* function concatenates: the fixed template parts, each with the values   *)
(* interpolated into it, and one fragment per rendered item.  Titles and   *)
(* urls are inserted as they are, without escaping.                        *)
(***************************************************************************)
\* a get that reads 'finance_news' when asked for 'global_news'
Get_shared(d, key) ==
    LET k == IF key = "global_news" THEN "finance_news" ELSE key IN
    IF k \in DOMAIN d THEN d[k] ELSE <<>>

\* a get whose default is a list holding one blank entry
Get_placeholder(d, key) ==
    IF key \in DOMAIN d THEN d[key] ELSE <<[title |-> <<>>, url |-> <<>>]>>

\* dict.get(key, [])
Get(d, key) == IF key \in DOMAIN d THEN d[key] ELSE <<>>

TAG_URGENT == <<37325, 30917>>
TAG_NEW == <<26032, 38395>>
TAG_WATCH == <<20851, 27880>>

\* the tags decided with i < 2 and i < 4
KeyPoint_strict(i, item) ==
    [ part      |-> "li",
      bullet    |-> i,
      href      |-> item.url,
      strong    |-> item.title,
      tag_class |-> IF i < 2 THEN "urgent" ELSE IF i < 4 THEN "new" ELSE "",
      tag_text  |-> IF i < 2 THEN TAG_URGENT ELSE IF i < 4 THEN TAG_NEW ELSE TAG_WATCH,
      link      |-> item.url ]

KeyPoint(i, item) ==
    [ part      |-> "li",
      bullet    |-> i,
      href      |-> item.url,
      strong    |-> item.title,
      tag_class |-> IF i =< 2 THEN "urgent" ELSE IF i =< 4 THEN "new" ELSE "",
      tag_text  |-> IF i =< 2 THEN TAG_URGENT ELSE IF i =< 4 THEN TAG_NEW ELSE TAG_WATCH,
      link      |-> item.url ]

\* for i, item in enumerate(highlights[:6], 1)
KeyPoints(highlights) ==
    [i \in 1..Len(Take(highlights, 6)) |-> KeyPoint(i, highlights[i])]

vip_leaders ==
    << [name |-> "Sam Altman",    title |-> "OpenAI CEO",    avatar |-> "SA"],
       [name |-> "Jensen Huang",  title |-> "NVIDIA CEO",    avatar |-> "JH"],
       [name |-> "Sundar Pichai", title |-> "Google CEO",    avatar |-> "SP"],
       [name |-> "Satya Nadella", title |-> "Microsoft CEO", avatar |-> "SN"] >>

QuoteCard(leader, news_item, dates) ==
    [ part   |-> "quote-card",
      avatar |-> leader.avatar,
      name   |-> leader.name,
      title  |-> leader.title,
      text   |-> news_item.title,
      month  |-> dates.month,
      source |-> news_item.url ]

\* the figures paired with the entries from the end of vip_news
RECURSIVE QuoteCards_from_end(_, _, _)
QuoteCards_from_end(i, vip_news, dates) ==
    IF i >= Len(vip_leaders) THEN <<>>
    ELSE (IF i < Len(vip_news)
          THEN <<QuoteCard(vip_leaders[i + 1], vip_news[Len(vip_news) - i], dates)>>
          ELSE <<>>)
         \o QuoteCards_from_end(i + 1, vip_news, dates)

\* for i, leader in enumerate(vip_leaders): if i < len(vip_news)   (i from 0)
RECURSIVE QuoteCards(_, _, _)
QuoteCards(i, vip_news, dates) ==
    IF i >= Len(vip_leaders) THEN <<>>
    ELSE (IF i < Len(vip_news)
          THEN <<QuoteCard(vip_leaders[i + 1], vip_news[i + 1], dates)>>
          ELSE <<>>)
         \o QuoteCards(i + 1, vip_news, dates)

\* the card dated with the month in which the week started
NewsCard_week_start(item, category, source, new_badge, dates) ==
    [ part      |-> "news-card",
      category  |-> category,
      new_badge |-> new_badge,
      month     |-> dates.week_start_month,
      href      |-> item.url,
      heading   |-> item.title,
      source    |-> source,
      read_more |-> item.url ]

NewsCard(item, category, source, new_badge, dates) ==
    [ part      |-> "news-card",
      category  |-> category,
      new_badge |-> new_badge,
      month     |-> dates.month,
      href      |-> item.url,
      heading   |-> item.title,
      source    |-> source,
      read_more |-> item.url ]

\* for item in news_data.get(category, [])[:6]
NewsCards(items, category, source, new_badge, dates) ==
    [j \in 1..Len(Take(items, 6)) |->
        NewsCard(items[j], category, source, new_badge, dates)]

WeekRange(dates) ==
    <<dates.week_start_month, dates.week_start_day,
      dates.month, dates.day>>

generate_html(news, dates) ==
    << [part |-> "head"],
       [part |-> "header", countdown |-> "--:--:--",
        updated |-> <<dates.formatted, dates.time>>,
        week_range |-> WeekRange(dates)],
       [part |-> "nav"],
       [part |-> "key-points", week_range |-> WeekRange(dates)] >>
    \o KeyPoints(Get(news, "highlights"))
    \o << [part |-> "/key-points"],
          [part |-> "vip-section"] >>
    \o QuoteCards(0, Get(news, "vip_news"), dates)
    \o << [part |-> "/vip-section"],
          [part |-> "stats"],
          [part |-> "finance-section"] >>
    \o NewsCards(Get(news, "finance_news"), "category-finance", "AI News", TRUE,
                 dates)
    \o << [part |-> "/finance-section"],
          [part |-> "products"] >>
    \o NewsCards(Get(news, "global_news"), "category-tech", "Tech News", FALSE,
                 dates)
    \o << [part |-> "/products"],
          [part |-> "footer", year |-> dates.year, updated |-> dates.formatted],
          [part |-> "script"] >>

(***************************************************************************)
(* Specification of generate_html as a pure function of its arguments.     *)
(***************************************************************************)
Categories == <<"highlights", "vip_news", "finance_news", "global_news">>

CategorySet == {Categories[i] : i \in 1..Len(Categories)}

\* readings of the clock, in order: before and after a change of month and
\* year, and in a leap year
Instants ==
    << [year |-> 2026, month |-> 12, day |-> 31, hour |-> 23, minute |-> 59],
       [year |-> 2027, month |-> 1,  day |-> 1,  hour |-> 0,  minute |-> 5],
       [year |-> 2028, month |-> 3,  day |-> 5,  hour |-> 9,  minute |-> 7] >>

\* the i-th item of a category's list: title 'Xi', url '/Xi', X by category
SampleItem(c, i) ==
    LET x == CHOOSE k \in 1..Len(Categories) : Categories[k] = c IN
    [title |-> <<64 + x, 48 + i>>, url |-> <<47, 64 + x, 48 + i>>]

SampleList(c, n) == [i \in 1..n |-> SampleItem(c, i)]

\* every category is missing or holds a list of 0..MaxItems items
SampleCollections ==
    UNION { [D -> 0..MaxItems] : D \in SUBSET CategorySet }

SampleNews(lens) == [c \in DOMAIN lens |-> SampleList(c, lens[c])]

InitRender ==
    /\ pc = "render_call"
    /\ \E lens \in SampleCollections : news_data = SampleNews(lens)
    /\ \E i \in 1..Len(Instants) : date_info = get_current_date(Instants[i])
    /\ html_content = None
    /\ duckduckgo_url = <<>>
    /\ real_url = None
    /\ FetchIdle
    /\ MainIdle

GenerateHtml ==
    /\ pc = "render_call"
    /\ html_content' = generate_html(news_data, date_info)
    /\ pc' = "render_done"
    /\ UNCHANGED <<date_info, news_data, urlVars, fetchVars, mainVars>>

NextRender == GenerateHtml

SpecRender == InitRender /\ [][NextRender]_vars

(***************************************************************************)
(* main.                                                                   *)
(***************************************************************************)
\* queries = {...}: the query strings of every category, with the year and
\* the month interpolated
queries(year, month) ==
    [
      highlights |->
        <<
          (* line 981 *)
            <<65, 73, 20154, 24037, 26234, 33021, 32, 37325, 22823, 31361, 30772, 32>>
            \o DecStr(year)
            \o <<24180>>
            \o DecStr(month)
            \o <<26376>>,
          (* line 982 *)
            <<79, 112, 101, 110, 65, 73, 32, 67, 104, 97, 116, 71,
              80, 84, 32, 71, 80, 84, 45, 53, 32, 26368, 26032, 21457,
              24067, 32>>
            \o DecStr(year),
          (* line 983 *)
            <<65, 73, 22823, 27169, 22411, 32, 21457, 24067, 32, 26032, 38395, 32>>
            \o DecStr(year)
            \o <<24180>>
            \o DecStr(month)
            \o <<26376>>,
          (* line 984 *)
            <<68, 101, 101, 112, 83, 101, 101, 107, 32, 67, 108, 97,
              117, 100, 101, 32, 71, 101, 109, 105, 110, 105, 32, 26368,
              26032, 21160, 24577>>
        >>,
      vip_news |->
        <<
          (* line 987 *)
            <<83, 97, 109, 32, 65, 108, 116, 109, 97, 110, 32, 79,
              112, 101, 110, 65, 73, 32, 26368, 26032, 21457, 35328, 32>>
            \o DecStr(year),
          (* line 988 *)
            <<40644, 20161, 21195, 32, 74, 101, 110, 115, 101, 110, 32, 72,
              117, 97, 110, 103, 32, 78, 86, 73, 68, 73, 65, 32,
              28436, 35762, 32>>
            \o DecStr(year),
          (* line 989 *)
            <<39532, 26031, 20811, 32, 69, 108, 111, 110, 32, 77, 117, 115,
              107, 32, 65, 73, 32, 120, 65, 73, 32>>
            \o DecStr(year),
          (* line 990 *)
            <<26446, 24422, 23439, 32, 30334, 24230, 32, 25991, 24515, 19968, 35328, 32>>
            \o DecStr(year)
        >>,
      finance_news |->
        <<
          (* line 993 *)
            <<65, 73, 37329, 34701, 32, 38134, 34892, 32, 22823, 27169, 22411, 24212,
              29992, 32>>
            \o DecStr(year)
            \o <<24180>>
            \o DecStr(month)
            \o <<26376>>,
          (* line 994 *)
            <<20154, 24037, 26234, 33021, 32, 37327, 21270, 20132, 26131, 32, 25237, 36164,
              32>>
            \o DecStr(year),
          (* line 995 *)
            <<65, 73, 39118, 25511, 32, 26234, 33021, 25237, 39038, 32, 37329, 34701,
              31185, 25216, 32>>
            \o DecStr(year)
        >>,
      global_news |->
        <<
          (* line 998 *)
            <<65, 73, 33455, 29255, 32, 71, 80, 85, 32, 31639, 21147, 32,
              26368, 26032, 32>>
            \o DecStr(year)
            \o <<24180>>
            \o DecStr(month)
            \o <<26376>>,
          (* line 999 *)
            <<20154, 24037, 26234, 33021, 32, 34701, 36164, 32, 29420, 35282, 20861, 32>>
            \o DecStr(year),
          (* line 1000 *)
            <<65, 73, 20135, 21697, 32, 21457, 24067, 20250, 32, 31185, 25216, 20844,
              21496, 32>>
            \o DecStr(year)
            \o <<24180>>
            \o DecStr(month)
            \o <<26376>>
        >>
    ]

\* an assignment in place of the extend
extend_replaces(list, results) == results

\* the results put in front of the list
extend_prepends(list, results) == results \o list

\* list.extend(results)
extend(list, results) == list \o results

\* for category, query_list in queries.items(): for query in query_list:
\* the <<category, position in the category's list>> of every query, in order
QueryOrder ==
    LET q == queries(0, 0) IN
    Flatten([c \in 1..Len(Categories) |->
                [j \in 1..Len(q[Categories[c]]) |-> <<Categories[c], j>>]])

NUM_RESULTS == 3      \* search_news(query, num_results=3)

\* the file index.html before the run: the page an earlier run wrote
PriorNews == [c \in CategorySet |-> <<[title |-> <<80>>, url |-> <<47, 80>>]>>]

PriorFile ==
    generate_html(PriorNews,
                  get_current_date([year |-> 2026, month |-> 11, day |-> 29,
                                    hour |-> 8, minute |-> 0]))

\* what the search provider may answer to a query of a run
RunAnchors ==
    << Anchor(RESULT_CLASS, UDDG \o <<120, PCT, 50, 70, AMP, 114>>, <<SPACE, 65, SPACE>>),
       Anchor(RESULT_CLASS, <<120>>, <<66>>),
       Anchor(RESULT_CLASS, <<121>>, <<SPACE, 9>>),
       Anchor("result__snippet", <<122>>, <<67>>) >>

RunHits ==
    { [kind |-> "ok", html |-> <<RunAnchors[2]>>],
      [kind |-> "ok", html |-> <<RunAnchors[1], RunAnchors[4], RunAnchors[2],
                                 RunAnchors[1], RunAnchors[2]>>] }

RunMisses ==
    { [kind |-> "timeout"],
      [kind |-> "ok", html |-> <<RunAnchors[3], RunAnchors[4]>>] }

\* how much of the text may have reached the file when write returns:
\* nothing, a part of it, or all of it
FlushPoints(text) == {0, Len(text) \div 2, Len(text)}

InitMain ==
    /\ pc = "start"
    /\ clock \in 1..Len(Instants)
    /\ date_info = None
    /\ news_data = <<>>
    /\ current_year = 0
    /\ current_month = 0
    /\ qi = 0
    /\ calls = <<>>
    /\ hits = 0
    /\ html_content = None
    /\ file = PriorFile
    /\ duckduckgo_url = <<>>
    /\ real_url = None
    /\ FetchIdle

\* main opening the output file before anything else
GetDate_opens_first ==
    /\ pc = "start"
    /\ \E t \in clock..Len(Instants) :
           /\ clock' = t
           /\ date_info' = get_current_date(Instants[t])
    /\ news_data' = [c \in CategorySet |-> <<>>]
    /\ file' = <<>>
    /\ pc' = "dated"
    /\ UNCHANGED <<current_year, current_month, qi, calls, hits, html_content,
                   urlVars, fetchVars>>

\* date_info = get_current_date(); news_data = {...: []}
GetDate ==
    /\ pc = "start"
    /\ \E t \in clock..Len(Instants) :
           /\ clock' = t
           /\ date_info' = get_current_date(Instants[t])
    /\ news_data' = [c \in CategorySet |-> <<>>]
    /\ pc' = "dated"
    /\ UNCHANGED <<current_year, current_month, qi, calls, hits, html_content, file,
                   urlVars, fetchVars>>

\* now = datetime.now(); current_month = now.month; current_year = now.year
BuildQueries ==
    /\ pc = "dated"
    /\ \E t \in clock..Len(Instants) :
           /\ clock' = t
           /\ current_month' = Instants[t].month
           /\ current_year' = Instants[t].year
    /\ pc' = "fetching"
    /\ UNCHANGED <<date_info, news_data, qi, calls, hits, html_content, file,
                   urlVars, fetchVars>>

\* one iteration of the inner loop: results = search_news(query, num_results=3);
\* news_data[category].extend(results)
Fetch ==
    /\ pc = "fetching"
    /\ qi < Len(QueryOrder)
    /\ LET category == QueryOrder[qi + 1][1]
           q == queries(current_year, current_month)[category][QueryOrder[qi + 1][2]]
       IN \E resp \in RunMisses \cup (IF hits < MaxHits THEN RunHits ELSE {}) :
              LET r == search_news(q, NUM_RESULTS, resp) IN
              /\ query' = q
              /\ num_results' = NUM_RESULTS
              /\ response' = resp
              /\ ret' = r
              /\ hits' = IF resp \in RunHits THEN hits + 1 ELSE hits
              /\ IF r.raised
                 THEN /\ pc' = "crashed"
                      /\ UNCHANGED <<news_data, qi, calls>>
                 ELSE /\ pc' = "fetching"
                      /\ news_data' = [news_data EXCEPT ![category] = extend(@, r.results)]
                      /\ qi' = qi + 1
                      /\ calls' = Append(calls, [category |-> category, query |-> q,
                                                 results |-> r.results])
    /\ UNCHANGED <<clock, date_info, current_year, current_month, html_content, file,
                   urlVars>>

\* html_content = generate_html(news_data, date_info)
Render ==
    /\ pc = "fetching"
    /\ qi = Len(QueryOrder)
    /\ html_content' = generate_html(news_data, date_info)
    /\ pc' = "rendered"
    /\ UNCHANGED <<clock, date_info, news_data, current_year, current_month, qi, calls,
                   hits, file, urlVars, fetchVars>>

\* open(output_path, 'w'): the file is created or truncated
OpenFile ==
    /\ pc = "rendered"
    /\ file' = <<>>
    /\ pc' = "opened"
    /\ UNCHANGED <<clock, date_info, news_data, current_year, current_month, qi, calls,
                   hits, html_content, urlVars, fetchVars>>

\* f.write(html_content): the text goes to the file object's buffer, and the
\* part of it that overflows the buffer reaches the file
WriteFile ==
    /\ pc = "opened"
    /\ \E n \in FlushPoints(html_content) : file' = Take(html_content, n)
    /\ pc' = "written"
    /\ UNCHANGED <<clock, date_info, news_data, current_year, current_month, qi, calls,
                   hits, html_content, urlVars, fetchVars>>

\* leaving the with block closes the file: the buffer is flushed
CloseFile ==
    /\ pc = "written"
    /\ file' = html_content
    /\ pc' = "done"
    /\ UNCHANGED <<clock, date_info, news_data, current_year, current_month, qi, calls,
                   hits, html_content, urlVars, fetchVars>>

\* the process is killed from outside: nothing more is executed, and what is
\* still in the file object's buffer is lost
Kill ==
    /\ pc \in {"start", "dated", "fetching", "rendered", "opened", "written"}
    /\ pc' = "killed"
    /\ UNCHANGED <<clock, date_info, news_data, current_year, current_month, qi, calls,
                   hits, html_content, file, urlVars, fetchVars>>

Next ==
    \/ GetDate
    \/ BuildQueries
    \/ Fetch
    \/ Render
    \/ OpenFile
    \/ WriteFile
    \/ CloseFile
    \/ Kill

Spec == InitMain /\ [][Next]_vars

\* a statement of main is executed
Step ==
    \/ GetDate
    \/ BuildQueries
    \/ Fetch
    \/ Render
    \/ OpenFile
    \/ WriteFile
    \/ CloseFile

\* a run started at the last instant: both readings of the clock give it
InitLive == InitMain /\ clock = Len(Instants)

\* the run with its scheduling: the single thread of main executes its next
\* statement as long as there is one, unless the process is killed
SpecLive == InitLive /\ [][Next]_vars /\ WF_vars(Step)

(***************************************************************************)
(* Notions the properties of the fetcher are stated with.                  *)
(***************************************************************************)
\* t is s without its leading and trailing whitespace
IsTrimOf(t, s) ==
    \E a \in 0..Len(s) :
        /\ a + Len(t) =< Len(s)
        /\ SubSeq(s, a + 1, a + Len(t)) = t
        /\ \A i \in 1..a : IsSpace(s[i])
        /\ \A i \in (a + Len(t) + 1)..Len(s) : IsSpace(s[i])
        /\ t # <<>> => (~IsSpace(t[1]) /\ ~IsSpace(t[Len(t)]))

\* positions in html of the anchors the pattern matches
MatchedIdx(html) == {j \in 1..Len(html) : html[j].class = RESULT_CLASS}

HasTitle(a) == \E i \in 1..Len(a.text) : ~IsSpace(a.text[i])

\* the n-th smallest element of a set of positions
NthOf(S, n) == CHOOSE j \in S : Cardinality({m \in S : m =< j}) = n

\* the matched anchors with a non-empty trimmed title, in document order
TitledIdx(html) == {j \in MatchedIdx(html) : HasTitle(html[j])}

\* the positions search_news looks at: the first n matched anchors
LookedAt(html, n) ==
    {j \in MatchedIdx(html) : Cardinality({m \in MatchedIdx(html) : m =< j}) =< n}

Returned == pc = "fetch_returned"

\* C1 (as claimed): search_news never raises, and for num_results >= 0 it
\* returns a sequence no longer than num_results, whatever the query and the
\* outcome of the HTTP request.
C1_NeverRaises ==
    (pc # "fetch_call" /\ num_results >= 0)
        => (Returned /\ ~ret.raised /\ Len(ret.results) =< num_results)

\* C4 (as claimed): the result is the first min(k, m) of the m matched
\* anchors that have a non-empty trimmed title (skip first, truncate second).
C4_SkipThenTruncate ==
    (Returned /\ response.kind = "ok" /\ num_results >= 0)
        => LET T == TitledIdx(response.html) IN
           /\ Len(ret.results) = Min(num_results, Cardinality(T))
           /\ \A i \in 1..Len(ret.results) :
                  IsTrimOf(ret.results[i].title, response.html[NthOf(T, i)].text)

\* C5: every returned SearchResult has a non-empty title that is the
\* whitespace-trimmed inner text of the anchor it came from (the i-th result
\* comes from the i-th titled anchor among those search_news looked at).
C5_TitleIsTrimmedText ==
    (Returned /\ response.kind = "ok" /\ num_results >= 0)
        => LET S == LookedAt(response.html, num_results) \cap TitledIdx(response.html) IN
           \A i \in 1..Len(ret.results) :
               /\ i =< Cardinality(S)
               /\ ret.results[i].title # <<>>
               /\ IsTrimOf(ret.results[i].title, response.html[NthOf(S, i)].text)

\* a call returned a result whose title differs from the anchor's raw text
C5_Witness ==
    /\ Returned /\ response.kind = "ok" /\ num_results >= 0
    /\ Len(ret.results) >= 2
    /\ \E j \in 1..Len(response.html) :
           /\ response.html[j].class = RESULT_CLASS
           /\ response.html[j].text # ret.results[1].title
           /\ IsTrimOf(ret.results[1].title, response.html[j].text)

(***************************************************************************)
(* Notions the properties of the redirect resolution are stated with.      *)
(***************************************************************************)
\* the text of h from position p up to the next '&' or the end of h
UpToAmp(h, p) ==
    LET e == CHOOSE e \in (p - 1)..Len(h) :
                 /\ \A i \in p..e : h[i] # AMP
                 /\ (e = Len(h) \/ h[e + 1] = AMP)
    IN SubSeq(h, p, e)

KeyAt(h) == {p \in 1..Len(h) : StartsAt(h, p, UDDG)}

\* the key occurrences that are followed by a character other than '&'
ValuedKeyAt(h) ==
    {p \in KeyAt(h) : p + Len(UDDG) =< Len(h) /\ h[p + Len(UDDG)] # AMP}

First(S) == CHOOSE p \in S : \A q \in S : p =< q

\* the '%XX' escapes of v
EscapeAt(v) ==
    {i \in 1..Len(v) : /\ v[i] = PCT
                       /\ i + 2 =< Len(v)
                       /\ IsHexDigit(v[i + 1]) /\ IsHexDigit(v[i + 2])}

EscapeByte(v, i) == 16 * HexVal(v[i + 1]) + HexVal(v[i + 2])

\* urls whose percent-encoding is known
Targets == SeqsUpTo({47, 120, 233, 24180}, 2)

\* r is the percent-decoding of v
Decodes(v, r) ==
    LET E == EscapeAt(v)
        Kept == {i \in 1..Len(v) : (i - 1) \notin E /\ (i - 2) \notin E}
    IN /\ (\A i \in 1..Len(v) : v[i] # PCT) => r = v
       /\ \A t \in Targets : v = quote_plus(t) => r = t
       /\ (\A i \in E : EscapeByte(v, i) < 128)
             => /\ Len(r) = Cardinality(Kept)
                /\ \A n \in 1..Len(r) :
                       LET i == NthOf(Kept, n) IN
                       r[n] = IF i \in E THEN EscapeByte(v, i) ELSE v[i]

UrlDone == pc = "url_done"

\* C6 (as claimed): every href containing 'uddg=' resolves to the
\* percent-decoded text after 'uddg=' up to the next '&' or the end; every
\* other href resolves to itself.
C6_Original ==
    UrlDone =>
        IF Contains(duckduckgo_url, UDDG)
        THEN Decodes(UpToAmp(duckduckgo_url, First(KeyAt(duckduckgo_url)) + Len(UDDG)),
                     real_url)
        ELSE real_url = duckduckgo_url

\* C6 (amended): an href in which some 'uddg=' is followed by a character
\* other than '&' resolves to the percent-decoded text after the first such
\* 'uddg=' up to the next '&' or the end; every other href (no 'uddg=', or
\* 'uddg=' only ever followed by '&' or by the end) resolves to itself.
C6_Resolution ==
    UrlDone =>
        IF ValuedKeyAt(duckduckgo_url) # {}
        THEN Decodes(UpToAmp(duckduckgo_url,
                             First(ValuedKeyAt(duckduckgo_url)) + Len(UDDG)),
                     real_url)
        ELSE real_url = duckduckgo_url

\* the url wrapped in 'uddg=x%2F&...' was resolved to 'x/'
C6_Witness ==
    /\ UrlDone
    /\ duckduckgo_url = UDDG \o <<120, PCT, 50, 70, AMP>>
    /\ real_url = <<120, 47>>

(***************************************************************************)
(* Notions the properties of the run are stated with.                      *)
(***************************************************************************)
Killed == pc = "killed"

\* C2 (as claimed): when the run is killed before it completes, the output
\* file holds its complete prior content or the complete new document.
C2_NoPartialOutput ==
    Killed => (file = PriorFile \/ (html_content # None /\ file = html_content))

\* a step of the fetch loop whose HTTP request failed
FailedFetchStep ==
    /\ pc = "fetching"
    /\ pc' \notin {"killed", "rendered"}
    /\ response'.kind \in FailureKinds

\* C3: a failed fetch gives the empty list, is not propagated out of the
\* loop, is not retried (the loop moves on to the next query), and leaves
\* the NewsCollection as it was.
C3_FailedFetchIsEmpty ==
    [][FailedFetchStep =>
          /\ pc' = "fetching"
          /\ ~ret'.raised
          /\ ret'.results = <<>>
          /\ qi' = qi + 1
          /\ Len(calls') = Len(calls) + 1
          /\ news_data' = news_data]_vars

\* a fetch has just failed after results had been collected for its
\* category, and the loop is at the next query
C3_Witness ==
    /\ pc = "fetching"
    /\ qi >= 2 /\ qi < Len(QueryOrder)
    /\ response.kind = "timeout"
    /\ calls[qi].results = <<>>
    /\ news_data[calls[qi].category] # <<>>

\* the results of the calls made for category c, concatenated in call order
RECURSIVE ResultsFor(_, _)
ResultsFor(c, cs) ==
    IF cs = <<>> THEN <<>>
    ELSE (IF cs[1].category = c THEN cs[1].results ELSE <<>>)
         \o ResultsFor(c, Drop(cs, 1))

CategoryRank(c) ==
    IF c = "highlights" THEN 1 ELSE IF c = "vip_news" THEN 2
    ELSE IF c = "finance_news" THEN 3 ELSE 4

\* C7: after a run every category's list is the concatenation, in query
\* order, of the lists search_news returned for its queries; search_news was
\* called once per query, 14 times, the categories in the order highlights,
\* vip_news, finance_news, global_news; duplicates are kept.
C7_CollectionIsConcatenation ==
    pc = "done" =>
        LET qs == queries(current_year, current_month) IN
        /\ Len(calls) = 14
        /\ \A c \in CategorySet : news_data[c] = ResultsFor(c, calls)
        /\ \A i, j \in 1..Len(calls) :
               i < j => CategoryRank(calls[i].category) =< CategoryRank(calls[j].category)
        /\ \A c \in CategorySet :
               LET at == {i \in 1..Len(calls) : calls[i].category = c} IN
               /\ Cardinality(at) = Len(qs[c])
               /\ \A n \in 1..Len(qs[c]) : calls[NthOf(at, n)].query = qs[c][n]

\* a completed run in which two queries of one category returned the same
\* result, kept twice
C7_Witness ==
    /\ pc = "done"
    /\ \E c \in CategorySet :
           /\ Len(news_data[c]) >= 4
           /\ \E i, j \in 1..Len(news_data[c]) : i < j /\ news_data[c][i] = news_data[c][j]
           /\ news_data[c][1] # news_data[c][2]

(***************************************************************************)
(* Notions the properties of the renderer are stated with.                 *)
(***************************************************************************)
Rendered == pc = "render_done"

PartAt(doc, name) == CHOOSE i \in 1..Len(doc) : doc[i].part = name

\* the fragments of doc between the fragment named open and the one named close
Section(doc, open, close) ==
    SubSeq(doc, PartAt(doc, open) + 1, PartAt(doc, close) - 1)

\* C8: the key-points section holds min(n, 6) list items; item i shows the
\* title of highlights[i-1] and links to its url, tagged "urgent" for
\* i <= 2, "new" for i in 3..4 and with the empty class for i >= 5.
C8_KeyPoints ==
    Rendered =>
        LET highlights == Get(news_data, "highlights")
            items == Section(html_content, "key-points", "/key-points")
        IN /\ Len(items) = Min(Len(highlights), 6)
           /\ \A i \in 1..Len(items) :
                  /\ items[i].part = "li"
                  /\ items[i].bullet = i
                  /\ items[i].strong = highlights[i].title
                  /\ items[i].href = highlights[i].url
                  /\ items[i].link = highlights[i].url
                  /\ items[i].tag_class = CASE i \in 1..2 -> "urgent"
                                            [] i \in 3..4 -> "new"
                                            [] OTHER -> ""

\* more than six highlights were rendered
C8_Witness ==
    /\ Rendered
    /\ Len(Get(news_data, "highlights")) = 7
    /\ Len(Section(html_content, "key-points", "/key-points")) = 6

\* C9: the VIP section holds min(n, 4) quote cards; the card of the i-th
\* figure is there iff vip_news has an entry at index i, and it shows the
\* title and url of that entry.
C9_QuoteCards ==
    Rendered =>
        LET vip_news == Get(news_data, "vip_news")
            cards == Section(html_content, "vip-section", "/vip-section")
            figures == <<"Sam Altman", "Jensen Huang", "Sundar Pichai", "Satya Nadella">>
        IN /\ Len(cards) = Min(Len(vip_news), 4)
           /\ \A i \in 1..4 :
                  (\E k \in 1..Len(cards) : cards[k].name = figures[i])
                      <=> i =< Len(vip_news)
           /\ \A k \in 1..Len(cards) :
                  /\ cards[k].part = "quote-card"
                  /\ cards[k].name = figures[k]
                  /\ cards[k].text = vip_news[k].title
                  /\ cards[k].source = vip_news[k].url

\* two figures have an entry and two do not
C9_Witness ==
    /\ Rendered
    /\ Len(Get(news_data, "vip_news")) = 2
    /\ Len(Section(html_content, "vip-section", "/vip-section")) = 2

\* the cards of a news grid show the first min(n, 6) entries of the category
GridShows(open, close, category) ==
    LET entries == Get(news_data, category)
        cards == Section(html_content, open, close)
    IN /\ Len(cards) = Min(Len(entries), 6)
       /\ \A j \in 1..Len(cards) :
              /\ cards[j].part = "news-card"
              /\ cards[j].heading = entries[j].title
              /\ cards[j].href = entries[j].url
              /\ cards[j].read_more = entries[j].url
              /\ cards[j].month = date_info.month

\* C10: the finance grid and the global grid each hold min(n, 6) cards, the
\* j-th showing the title and url of the j-th entry of the category, every
\* card with the month of the DateInfo.
C10_NewsGrids ==
    Rendered =>
        /\ GridShows("finance-section", "/finance-section", "finance_news")
        /\ GridShows("products", "/products", "global_news")

\* both grids were cut to six cards, in a month that is not the month in
\* which the week started
C10_Witness ==
    /\ Rendered
    /\ Len(Get(news_data, "finance_news")) = 7
    /\ Len(Get(news_data, "global_news")) = 3
    /\ Len(Section(html_content, "finance-section", "/finance-section")) = 6
    /\ Len(Section(html_content, "products", "/products")) = 3
    /\ date_info.month # date_info.week_start_month


\* the names of the fragments of a document, in order
Parts(doc) == [i \in 1..Len(doc) |-> doc[i].part]

\* the fixed sections: header, navigation, key-points, VIP, stats, finance
\* grid, global grid, footer and countdown script
FixedParts ==
    << "head", "header", "nav", "key-points", "/key-points", "vip-section",
       "/vip-section", "stats", "finance-section", "/finance-section",
       "products", "/products", "footer", "script" >>

ItemParts == {"li", "quote-card", "news-card"}

\* every category of the collection is an empty list or is missing
NothingToShow == \A c \in DOMAIN news_data : news_data[c] = <<>>

\* C11: for a collection whose categories are all empty or missing,
\* generate_html returns the complete document: every fixed section, in
\* order, and no list item, quote card or news card.
C11_EmptyCollection ==
    (Rendered /\ NothingToShow) =>
        /\ html_content # None
        /\ Parts(html_content) = FixedParts
        /\ \A i \in 1..Len(html_content) : html_content[i].part \notin ItemParts

\* a collection with two categories missing and two empty was rendered
C11_Witness ==
    /\ Rendered
    /\ DOMAIN news_data = {"highlights", "finance_news"}
    /\ NothingToShow
    /\ Len(html_content) = Len(FixedParts)


\* C13: a run that is not killed ends completed, with the output file
\* written, whatever the outcomes of the 14 fetches; no fetch outcome makes
\* the run end in another state than the completed one.
C13_RunCompletes ==
    /\ <>(pc \in {"done", "killed"})
    /\ [](pc \notin {"done", "killed"} => ENABLED Step)
    /\ [](pc # "crashed")
    /\ [](pc = "done" => (Len(calls) = 14 /\ file = html_content))

\* a run completed although none of its 14 fetches returned a result
C13_Witness ==
    /\ pc = "done"
    /\ Len(calls) = 14
    /\ \A i \in 1..Len(calls) : calls[i].results = <<>>
    /\ hits = 0
    /\ file = html_content


\* C14: the output file is changed only after all 14 queries have been
\* fetched and generate_html has returned, by the one write at the end of
\* the run; once the run is done the file is exactly the rendered document
\* and is not changed again.
C14_WrittenOnceAtEnd ==
    /\ [][file' # file =>
             /\ Len(calls) = 14
             /\ html_content # None
             /\ html_content = generate_html(news_data, date_info)
             /\ pc \in {"rendered", "opened", "written"}]_vars
    /\ [][pc' = "opened" => pc = "rendered"]_vars
    /\ [][pc = "done" => (pc' = "done" /\ file' = file)]_vars
    /\ [](pc = "done" => (file = html_content /\ file # PriorFile))

\* a run has replaced the prior page by the page of its own results
C14_Witness ==
    /\ pc = "done"
    /\ hits > 0
    /\ file = html_content
    /\ \A i \in 1..Len(file) : file[i].part = "li" => file[i].strong # <<80>>
    /\ \E i \in 1..Len(file) : file[i].part \in ItemParts


\* s is a prefix of t
IsPrefix(s, t) == Len(s) =< Len(t) /\ SubSeq(t, 1, Len(s)) = s

\* the NewsCollection exists: main has built it
Collecting == DOMAIN news_data = CategorySet

\* C15: once built, the NewsCollection is only appended to: in every step
\* each category's list stays a prefix of its next value (so of every later
\* value), and a fetch changes at most the list of the category of the
\* query it fetched.
C15_AppendOnly ==
    [][Collecting =>
          /\ DOMAIN news_data' = CategorySet
          /\ \A c \in CategorySet : IsPrefix(news_data[c], news_data'[c])
          /\ \A c \in CategorySet :
                 news_data'[c] # news_data[c]
                     => /\ pc = "fetching"
                        /\ Len(calls') = Len(calls) + 1
                        /\ calls'[Len(calls')].category = c
                        /\ news_data'[c] = news_data[c] \o calls'[Len(calls')].results]_vars

\* a fetch has just appended to a list that held results already, while
\* another category holds results too
C15_Witness ==
    /\ pc = "fetching"
    /\ Collecting
    /\ qi >= 2
    /\ calls[qi].results # <<>>
    /\ Len(news_data[calls[qi].category]) > Len(calls[qi].results)
    /\ news_data[calls[qi].category][1] # calls[qi].results[1]


\* C16 (as claimed): the year and the month in every query sent to the
\* fetcher are the year and the month of the DateInfo shown on the page.
C16_OneSnapshot ==
    \A i \in 1..Len(calls) :
        LET dated == queries(date_info.year, date_info.month)[calls[i].category] IN
        \E j \in 1..Len(dated) : calls[i].query = dated[j]


\* some call of the run, made for a query of category c, returned the
\* result with this title and url
FetchedFor(c, title, url) ==
    \E i \in 1..Len(calls) :
        /\ calls[i].category = c
        /\ \E j \in 1..Len(queries(current_year, current_month)[c]) :
               calls[i].query = queries(current_year, current_month)[c][j]
        /\ \E k \in 1..Len(calls[i].results) :
               calls[i].results[k] = [title |-> title, url |-> url]

\* the positions of doc strictly between the fragments named open and close
Inside(doc, open, close) == (PartAt(doc, open) + 1)..(PartAt(doc, close) - 1)

\* C17: every item of the written page was returned to this run by a fetch
\* for a query of the category of the section it is shown in; the page holds
\* no item of another category's fetches and none of the prior page.
C17_Provenance ==
    pc = "done" =>
        /\ \A i \in 1..Len(file) :
               file[i].part \in ItemParts
                   => \/ i \in Inside(file, "key-points", "/key-points")
                      \/ i \in Inside(file, "vip-section", "/vip-section")
                      \/ i \in Inside(file, "finance-section", "/finance-section")
                      \/ i \in Inside(file, "products", "/products")
        /\ \A i \in Inside(file, "key-points", "/key-points") :
               /\ FetchedFor("highlights", file[i].strong, file[i].href)
               /\ file[i].link = file[i].href
        /\ \A i \in Inside(file, "vip-section", "/vip-section") :
               FetchedFor("vip_news", file[i].text, file[i].source)
        /\ \A i \in Inside(file, "finance-section", "/finance-section") :
               /\ FetchedFor("finance_news", file[i].heading, file[i].href)
               /\ file[i].read_more = file[i].href
        /\ \A i \in Inside(file, "products", "/products") :
               /\ FetchedFor("global_news", file[i].heading, file[i].href)
               /\ file[i].read_more = file[i].href

\* a written page that shows fetched finance items and vip items, and no
\* global item, the queries for global news having returned nothing
C17_Witness ==
    /\ pc = "done"
    /\ Inside(file, "finance-section", "/finance-section") # {}
    /\ Inside(file, "vip-section", "/vip-section") # {}
    /\ Inside(file, "products", "/products") = {}
    /\ news_data["global_news"] = <<>>

=============================================================================
